---- MODULE Spec2Model ----
(***************************************************************************)
(* generate_ambient() of src/cli/music/generate_ambient.py as a state      *)
(* machine.  Times and durations are in tenths of the source's unit, so    *)
(* that 0.3, 0.4, 0.5, 0.8, 1.2, 1.5, 2.5 and 3.5 are integers.            *)
(* Every random draw is a nondeterministic choice; a uniform or randint    *)
(* draw is sampled at Samples values of its range, both ends among them.   *)
(* `emitted` holds the notes the latest step passed to midi.addNote, in    *)
(* call order; the arguments of addNote, addProgramChange and addTempo     *)
(* are kept in the order MIDIUtil takes them (the track first, then the    *)
(* channel).  A local that the code overwrites before it reads it again    *)
(* (the temporaries of an iteration, the locals of a finished layer) is    *)
(* set back to None when the iteration or layer ends.                      *)
(***************************************************************************)
EXTENDS Integers, Sequences

VARIABLES pc, tempo, programs, time, root_idx, current_mode, last_note,
          root, scale, gesture, step, velocity, casc_n, casc_i,
          swell_k, swell_notes, emitted, written

vars == <<pc, tempo, programs, time, root_idx, current_mode, last_note,
          root, scale, gesture, step, velocity, casc_n, casc_i,
          swell_k, swell_notes, emitted, written>>

\* ------------------------------------------------------------ bounds

Samples == 2

\* --------------------------------------------------------- constants

None == -1

duration == 3000

modes ==
  [lydian     |-> <<0, 2, 4, 6, 7, 9, 11>>,
   dorian     |-> <<0, 2, 3, 5, 7, 9, 10>>,
   mixolydian |-> <<0, 2, 4, 5, 7, 9, 10>>,
   aeolian    |-> <<0, 2, 3, 5, 7, 8, 10>>]

mode_names == {"lydian", "dorian", "mixolydian", "aeolian"}

roots == <<48, 53, 50, 55, 48, 45, 50, 48>>

swell_times == <<450, 950, 1500, 2100, 2700>>

\* ------------------------------------------------------ random draws

\* random.uniform(a, b), in tenths: the two ends, then whole units up from a
Uniform(a, b) == {a, b} \cup {t \in a..b : \E k \in 1..(Samples - 2) : t = a + 10 * k}

\* random.randint(a, b): the two ends, then the integers up from a
RandInt(a, b) == {a, b} \cup {n \in a..b : \E k \in 1..(Samples - 2) : n = a + k}

\* ------------------------------------------------------ pure helpers

\* midi.addNote(track, channel, pitch, time, duration, volume)
Note(track, channel, pitch, start, dur, vel) ==
  [track |-> track, channel |-> channel, pitch |-> pitch,
   start |-> start, dur |-> dur, vel |-> vel]

\* midi.addProgramChange(tracknum, channel, time, program)
ProgramChange(track, channel, at, program) ==
  [track |-> track, channel |-> channel, time |-> at, program |-> program]

\* get_scale without the root added
get_scaleIntervals(r, mode_name) == modes[mode_name]

get_scale(r, mode_name) ==
  LET intervals == modes[mode_name]
  IN  [i \in 1..Len(intervals) |-> r + intervals[i]]

\* int(math.sin(progress * math.pi * 4) * 5) with progress = time / duration,
\* tabulated: <<first tenth of a run of equal values, the value>>
SinTable ==
  << <<0, 0>>, <<49, 1>>, <<99, 2>>, <<154, 3>>, <<222, 4>>, <<375, 5>>,
     <<376, 4>>, <<529, 3>>, <<597, 2>>, <<652, 1>>, <<702, 0>>, <<799, -1>>,
     <<849, -2>>, <<904, -3>>, <<972, -4>>, <<1125, -5>>, <<1126, -4>>,
     <<1279, -3>>, <<1347, -2>>, <<1402, -1>>, <<1452, 0>>, <<1549, 1>>,
     <<1599, 2>>, <<1654, 3>>, <<1722, 4>>, <<1875, 5>>, <<1876, 4>>,
     <<2029, 3>>, <<2097, 2>>, <<2152, 1>>, <<2202, 0>>, <<2299, -1>>,
     <<2349, -2>>, <<2404, -3>>, <<2472, -4>>, <<2625, -5>>, <<2626, -4>>,
     <<2779, -3>>, <<2847, -2>>, <<2902, -1>>, <<2952, 0>> >>

CenterShift(t) ==
  LET k == CHOOSE j \in 1..Len(SinTable) :
             /\ SinTable[j][1] <= t
             /\ (j = Len(SinTable) \/ t < SinTable[j + 1][1])
  IN  SinTable[k][2]

\* root = 60 + int(math.sin(progress * math.pi * 4) * 5)
MelodyRoot(t) == 60 + CenterShift(t)

\* Python truthiness of last_note: None and 0 are false
Truthy(n) == n # None /\ n # 0

\* x in seq
Contains(seq, x) == \E i \in 1..Len(seq) : seq[i] = x

\* seq.index(x), 0-based; only used where x is in seq
IndexOf(seq, x) == (CHOOSE i \in 1..Len(seq) : seq[i] = x /\ \A j \in 1..(i - 1) : seq[j] # x) - 1

\* Python subscript seq[idx]: a negative idx counts from the end
InRange(seq, idx) == idx >= 0 - Len(seq) /\ idx < Len(seq)

Item(seq, idx) == IF idx < 0 THEN seq[Len(seq) + idx + 1] ELSE seq[idx + 1]

Max(a, b) == IF a >= b THEN a ELSE b

Min(a, b) == IF a <= b THEN a ELSE b

\* time = gap in place of time += gap
AdvanceAssign(t, gap) == gap

\* time += hold / time += gap / time += random.uniform(..)
Advance(t, gap) == t + gap

\* ------------------------------------------------------------- state

Init ==
  /\ pc = "setup"
  /\ tempo = None
  /\ programs = {}
  /\ time = None
  /\ root_idx = None
  /\ current_mode = "none"
  /\ last_note = None
  /\ root = None
  /\ scale = <<>>
  /\ gesture = "none"
  /\ step = 0
  /\ velocity = None
  /\ casc_n = 0
  /\ casc_i = 0
  /\ swell_k = 0
  /\ swell_notes = 0
  /\ emitted = <<>>
  /\ written = FALSE

\* midi.addTempo(0, 0, tempo) and the four midi.addProgramChange calls
TrackSetup ==
  {ProgramChange(0, 0, 0, 89), ProgramChange(0, 1, 0, 0),
   ProgramChange(0, 2, 0, 8), ProgramChange(0, 3, 0, 48)}

Setup ==
  /\ pc = "setup"
  /\ tempo' = 55
  /\ programs' = TrackSetup
  /\ time' = 0
  /\ root_idx' = 0
  /\ pc' = "drone"
  /\ UNCHANGED <<current_mode, last_note, root, scale, gesture, step, velocity,
                 casc_n, casc_i, swell_k, swell_notes, emitted, written>>

\* ------------------------------------------------- layer 1: the drone

\* the root note cut off at the end of the piece
DroneRootDurClamped(t, hold) == Min(hold, duration - t)

\* the duration of the drone's root note
DroneRootDur(t, hold) == hold

\* the duration of the drone's third
DroneThirdDur(hold) == hold - 80

DroneNotes(r, t, hold, third) ==
  <<Note(0, 0, r, t, DroneRootDur(t, hold), 30),
    Note(0, 0, r + 7, t + 20, hold - 20, 25)>>
  \o (IF third = 0 THEN <<>> ELSE <<Note(0, 0, r + third, t + 50, DroneThirdDur(hold), 20)>>)

DroneIter ==
  /\ pc = "drone"
  /\ time < duration
  /\ \E hold \in Uniform(350, 450), third \in {0, 4, 3} :
       LET r == roots[(root_idx % Len(roots)) + 1]
       IN  /\ root' = r
           /\ emitted' = DroneNotes(r, time, hold, third)
           /\ time' = Advance(time, hold)
  /\ root_idx' = root_idx + 1
  /\ UNCHANGED <<pc, tempo, programs, current_mode, last_note, scale, gesture,
                 step, velocity, casc_n, casc_i, swell_k, swell_notes, written>>

\* the drone loop ends; time = 8, current_mode = 'lydian', last_note = None
DroneExit ==
  /\ pc = "drone"
  /\ ~(time < duration)
  /\ pc' = "melody"
  /\ time' = 80
  /\ current_mode' = "lydian"
  /\ last_note' = None
  /\ root_idx' = None
  /\ root' = None
  /\ emitted' = <<>>
  /\ UNCHANGED <<tempo, programs, scale, gesture, step, velocity, casc_n, casc_i,
                 swell_k, swell_notes, written>>

\* ------------------------------------------------ layer 2: the melody

\* the head of an iteration: the root, the mode change, the scale
MelodyBegin ==
  /\ pc = "melody"
  /\ time < duration - 100
  /\ \E change \in BOOLEAN, m \in mode_names :
       current_mode' = IF change THEN m ELSE current_mode
  /\ root' = MelodyRoot(time)
  /\ scale' = get_scale(root', current_mode')
  /\ pc' = "gesture"
  /\ UNCHANGED <<tempo, programs, time, root_idx, last_note, gesture, step,
                 velocity, casc_n, casc_i, swell_k, swell_notes, emitted, written>>

Steps == {-1, 1, -2, 2}

\* the first index in place of the middle one
FallbackIndexFirst(sc) == 0

\* len(scale) // 2, the index used when last_note is not in the scale
FallbackIndex(sc) == Len(sc) \div 2

\* idx = scale.index(last_note) if last_note in scale else len(scale) // 2
\* idx = max(0, min(len(scale) - 1, idx + step))
StepIndex(sc, last, st) ==
  LET idx == IF Contains(sc, last) THEN IndexOf(sc, last) ELSE FallbackIndex(sc)
  IN  Max(0, Min(Len(sc) - 1, idx + st))

\* what a gesture leaves behind: its notes and last_note, or the exception
\* of a subscript out of range
Played(kind, st, notes, last, ok) ==
  /\ gesture' = kind
  /\ step' = st
  /\ IF ok
     THEN /\ pc' = "gap"
          /\ emitted' = notes
          /\ last_note' = last
     ELSE /\ pc' = "error"
          /\ emitted' = <<>>
          /\ last_note' = last_note
  /\ UNCHANGED <<tempo, programs, time, root_idx, current_mode, root, scale,
                 velocity, casc_n, casc_i, swell_k, swell_notes, written>>

\* choice < 0.5, step-wise motion; the gesture is "fallback" when last_note
\* is not in the scale
SingleStep ==
  /\ pc = "gesture"
  /\ Truthy(last_note)
  /\ \E st \in Steps, vel \in RandInt(38, 58), note_dur \in Uniform(25, 60) :
       LET idx == StepIndex(scale, last_note, st)
           ok == InRange(scale, idx)
           note == IF ok THEN Item(scale, idx) ELSE None
           kind == IF Contains(scale, last_note) THEN "step" ELSE "fallback"
       IN  Played(kind, st, <<Note(0, 1, note, time, note_dur, vel)>>, note, ok)

\* choice < 0.5, note = random.choice(scale)
SingleFree ==
  /\ pc = "gesture"
  /\ \E k \in 1..Len(scale), vel \in RandInt(38, 58), note_dur \in Uniform(25, 60) :
       Played("free", 0, <<Note(0, 1, scale[k], time, note_dur, vel)>>, scale[k], TRUE)

Intervals == {2, 4, 5, 7}

\* note2 = note1 + interval
SecondNote(note1, interval) == note1 + interval

\* last_note = note2 in place of last_note = note1
PairLastSecond(note1, note2) == note2

\* last_note after the interval pair
PairLast(note1, note2) == note1

\* 0.5 <= choice < 0.7
IntervalPair ==
  /\ pc = "gesture"
  /\ \E k \in 1..Len(scale), interval \in Intervals, vel \in RandInt(35, 50) :
       LET note1 == scale[k]
           note2 == SecondNote(note1, interval)
       IN  Played("pair", interval,
                  <<Note(0, 1, note1, time, 40, vel),
                    Note(0, 1, note2, time + 3, 35, vel - 8)>>,
                  PairLast(note1, note2), TRUE)

\* idx = scale.index(start_note) if start_note in scale else 4
\* note = scale[max(0, idx - i)]
DescNote(sc, start_note, i) ==
  LET idx == IF Contains(sc, start_note) THEN IndexOf(sc, start_note) ELSE 4
  IN  Item(sc, Max(0, idx - i))

\* 0.7 <= choice < 0.85
Descending ==
  /\ pc = "gesture"
  /\ \E k \in 4..Len(scale) :
       LET start_note == scale[k]
           notes == [j \in 1..3 |->
                      Note(0, 1, DescNote(scale, start_note, j - 1),
                           time + (j - 1) * 12, 20, 50 - (j - 1) * 8)]
       IN  Played("desc", 0, notes, notes[3].pitch, TRUE)

\* note = scale[min(start_idx + i, len(scale) - 1)]
AscNote(sc, start_idx, i) == Item(sc, Min(start_idx + i, Len(sc) - 1))

\* choice >= 0.85
Ascending ==
  /\ pc = "gesture"
  /\ \E start_idx \in 0..3 :
       LET notes == [j \in 1..4 |->
                      Note(0, 1, AscNote(scale, start_idx, j - 1),
                           time + (j - 1) * 8, 25, 35 + (j - 1) * 5)]
       IN  Played("asc", 0, notes, notes[4].pitch, TRUE)

\* the variable silence that ends an iteration
MelodyGap ==
  /\ pc = "gap"
  /\ \E gap \in Uniform(120, 200) \cup Uniform(30, 90) :
       time' = Advance(time, gap)
  /\ pc' = "melody"
  /\ root' = None
  /\ scale' = <<>>
  /\ gesture' = "none"
  /\ step' = 0
  /\ emitted' = <<>>
  /\ UNCHANGED <<tempo, programs, root_idx, current_mode, last_note, velocity,
                 casc_n, casc_i, swell_k, swell_notes, written>>

\* the melody loop ends; time = 20
MelodyExit ==
  /\ pc = "melody"
  /\ ~(time < duration - 100)
  /\ pc' = "sparkle"
  /\ time' = 200
  /\ current_mode' = "none"
  /\ last_note' = None
  /\ UNCHANGED <<tempo, programs, root_idx, root, scale, gesture, step, velocity,
                 casc_n, casc_i, swell_k, swell_notes, emitted, written>>

\* ---------------------------------------------- layer 3: the sparkles

SparklePitches == {0, 2, 4, 7, 9}

CascadeOffsets == {-5, -3, -2, 2, 3, 5}

\* velocity - 10 * i * 3 in place of velocity - 10 - i * 3
CascadeVelocityMul(vel, i) == vel - 10 * i * 3

\* velocity - 10 - i * 3
CascadeVelocity(vel, i) == vel - 10 - i * 3

\* random.random() >= 0.35: nothing is played
SparkleSkip ==
  /\ pc = "sparkle"
  /\ time < duration - 50
  /\ \E gap \in Uniform(80, 180) : time' = Advance(time, gap)
  /\ UNCHANGED <<pc, tempo, programs, root_idx, current_mode, last_note, root,
                 scale, gesture, step, velocity, casc_n, casc_i, swell_k,
                 swell_notes, emitted, written>>

\* the single sparkle, and whether and how long a cascade follows
SparkleFire ==
  /\ pc = "sparkle"
  /\ time < duration - 50
  /\ \E p \in SparklePitches, vel \in RandInt(25, 45), n \in {0} \cup RandInt(2, 4) :
       /\ root' = 72 + p
       /\ velocity' = vel
       /\ casc_n' = n
       /\ emitted' = <<Note(0, 2, root', time, 15, vel)>>
  /\ casc_i' = 0
  /\ pc' = "cascade"
  /\ UNCHANGED <<tempo, programs, time, root_idx, current_mode, last_note, scale,
                 gesture, step, swell_k, swell_notes, written>>

\* one pass of for i in range(random.randint(2, 4))
CascadeNote ==
  /\ pc = "cascade"
  /\ casc_i < casc_n
  /\ \E o \in CascadeOffsets :
       emitted' = <<Note(0, 2, root + o, time + 4 + casc_i * 5, 12,
                         CascadeVelocity(velocity, casc_i))>>
  /\ casc_i' = casc_i + 1
  /\ UNCHANGED <<pc, tempo, programs, time, root_idx, current_mode, last_note,
                 root, scale, gesture, step, velocity, casc_n, swell_k,
                 swell_notes, written>>

\* time += random.uniform(8, 18) after a sparkle
SparkleAdvance ==
  /\ pc = "cascade"
  /\ ~(casc_i < casc_n)
  /\ \E gap \in Uniform(80, 180) : time' = Advance(time, gap)
  /\ pc' = "sparkle"
  /\ root' = None
  /\ velocity' = None
  /\ casc_n' = 0
  /\ casc_i' = 0
  /\ emitted' = <<>>
  /\ UNCHANGED <<tempo, programs, root_idx, current_mode, last_note, scale,
                 gesture, step, swell_k, swell_notes, written>>

\* the sparkle loop ends; for t in swell_times
SparkleExit ==
  /\ pc = "sparkle"
  /\ ~(time < duration - 50)
  /\ pc' = "swell"
  /\ time' = None
  /\ swell_k' = 1
  /\ UNCHANGED <<tempo, programs, root_idx, current_mode, last_note, root, scale,
                 gesture, step, velocity, casc_n, casc_i, swell_notes, emitted,
                 written>>

\* ------------------------------------------------ layer 4: the swells

SwellRoots == {0, 5, 7, -5}

\* the chord without its top tone
SwellChordTriad(r) == <<r, r + 7, r + 12>>

\* chord = [root, root + 7, root + 12, root + 16]
SwellChord(r) == <<r, r + 7, r + 12, r + 16>>

SwellNotes(r, t, rise) ==
  LET chord == SwellChord(r)
  IN  [j \in 1..Len(chord) |-> Note(0, 3, chord[j], t + (j - 1) * 5, 120, 15 + (j - 1) * 3)]
      \o (IF rise THEN <<Note(0, 3, (r + 12) + 2, t + 60, 50, 35)>> ELSE <<>>)

\* one pass of for t in swell_times
SwellIter ==
  /\ pc = "swell"
  /\ swell_k <= Len(swell_times)
  /\ LET t == swell_times[swell_k]
     IN  IF t < duration - 150
         THEN \E o \in SwellRoots, rise \in BOOLEAN :
                /\ root' = 48 + o
                /\ emitted' = SwellNotes(root', t, rise)
         ELSE /\ root' = root
              /\ emitted' = <<>>
  /\ swell_notes' = swell_notes + Len(emitted')
  /\ swell_k' = swell_k + 1
  /\ UNCHANGED <<pc, tempo, programs, time, root_idx, current_mode, last_note,
                 scale, gesture, step, velocity, casc_n, casc_i, written>>

\* the for loop ends; time = 30
SwellExit ==
  /\ pc = "swell"
  /\ ~(swell_k <= Len(swell_times))
  /\ pc' = "bass"
  /\ time' = 300
  /\ root' = None
  /\ emitted' = <<>>
  /\ UNCHANGED <<tempo, programs, root_idx, current_mode, last_note, scale,
                 gesture, step, velocity, casc_n, casc_i, swell_k, swell_notes,
                 written>>

\* -------------------------------------------------- layer 5: the bass

BassPitches == {0, 5, 7}

BassIter ==
  /\ pc = "bass"
  /\ time < duration - 200
  /\ \E play \in BOOLEAN, p \in BassPitches, gap \in Uniform(250, 450) :
       /\ emitted' = IF play THEN <<Note(0, 0, 36 + p, time, 80, 28)>> ELSE <<>>
       /\ time' = Advance(time, gap)
  /\ UNCHANGED <<pc, tempo, programs, root_idx, current_mode, last_note, root,
                 scale, gesture, step, velocity, casc_n, casc_i, swell_k,
                 swell_notes, written>>

\* the bass loop ends
BassExit ==
  /\ pc = "bass"
  /\ ~(time < duration - 200)
  /\ pc' = "save"
  /\ emitted' = <<>>
  /\ UNCHANGED <<tempo, programs, time, root_idx, current_mode, last_note, root,
                 scale, gesture, step, velocity, casc_n, casc_i, swell_k,
                 swell_notes, written>>

\* midi.writeFile(f)
Save ==
  /\ pc = "save"
  /\ written' = TRUE
  /\ pc' = "done"
  /\ UNCHANGED <<tempo, programs, time, root_idx, current_mode, last_note, root,
                 scale, gesture, step, velocity, casc_n, casc_i, swell_k,
                 swell_notes, emitted>>

\* ----------------------------------------------------- specification

Next ==
  \/ Setup
  \/ DroneIter
  \/ DroneExit
  \/ MelodyBegin
  \/ SingleStep
  \/ SingleFree
  \/ IntervalPair
  \/ Descending
  \/ Ascending
  \/ MelodyGap
  \/ MelodyExit
  \/ SparkleSkip
  \/ SparkleFire
  \/ CascadeNote
  \/ SparkleAdvance
  \/ SparkleExit
  \/ SwellIter
  \/ SwellExit
  \/ BassIter
  \/ BassExit
  \/ Save

Spec == Init /\ [][Next]_vars

\* ------------------------------------------------------------ claims

\* the layer whose loop is running
Layer ==
  CASE pc = "drone" -> "Drone"
    [] pc \in {"melody", "gesture", "gap"} -> "Melody"
    [] pc \in {"sparkle", "cascade"} -> "Sparkle"
    [] pc = "swell" -> "Swell"
    [] pc = "bass" -> "Bass"
    [] OTHER -> "none"

Notes == {emitted[i] : i \in 1..Len(emitted)}

\* C1: every note any layer adds has pitch in 0..127, velocity in 0..127,
\* a duration above 0 and a start of at least 0.
C1_NoteRanges ==
  \A e \in Notes :
    /\ e.pitch \in 0..127
    /\ e.vel \in 0..127
    /\ e.dur > 0
    /\ e.start >= 0

\* the fourth note of a cascade under the quietest sparkle
C1_Witness ==
  /\ pc = "cascade"
  /\ casc_i = 4
  /\ velocity = 25
  /\ emitted[1].vel = 6

\* the track the documentation gives each layer, and each track's program
RoleTrack(layer) ==
  CASE layer \in {"Drone", "Bass"} -> 0
    [] layer = "Melody" -> 1
    [] layer = "Sparkle" -> 2
    [] layer = "Swell" -> 3

RoleProgram == <<89, 0, 8, 48>>

\* C2: once the tracks are set up, track k carries the program {89,0,8,48}[k]
\* and every note is on the track of its layer's role (Drone and Bass 0,
\* Melody 1, Sparkle 2, Swell 3).
C2_TrackMapping ==
  pc # "setup" =>
    /\ \A k \in 0..3 :
         \E c \in programs : c.track = k /\ c.program = RoleProgram[k + 1]
    /\ \A e \in Notes : e.track = RoleTrack(Layer)

\* what is left of a loop whose cursor runs to cut
Left(cut) == Max(0, cut - time)

\* a variant of the whole run: the layers in order, then what is left of the
\* running loop, then what is left of the running iteration
Rank ==
  CASE pc = "setup" -> 700000
    [] pc = "drone" -> 600000 + Left(duration)
    [] pc = "melody" -> 500000 + 3 * Left(duration - 100) + 2
    [] pc = "gesture" -> 500000 + 3 * Left(duration - 100) + 1
    [] pc = "gap" -> 500000 + 3 * Left(duration - 100)
    [] pc = "sparkle" -> 400000 + 6 * Left(duration - 50) + 5
    [] pc = "cascade" -> 400000 + 6 * Left(duration - 50) + (casc_n - casc_i)
    [] pc = "swell" -> 300000 + (Len(swell_times) + 1 - swell_k)
    [] pc = "bass" -> 200000 + Left(duration - 200)
    [] pc = "save" -> 100000
    [] OTHER -> 0

\* the cursor of each loop moves on by at least its smallest gap when an
\* iteration ends, and not at all inside an iteration
CursorMoves ==
  /\ (pc = "drone" /\ pc' = "drone") => time' >= time + 350
  /\ (pc = "gap" /\ pc' = "melody") => time' >= time + 30
  /\ (pc \in {"sparkle", "cascade"} /\ pc' = "sparkle") => time' >= time + 80
  /\ (pc = "bass" /\ pc' = "bass") => time' >= time + 250
  /\ (pc' \in {"gesture", "gap", "cascade"}) => time' = time

\* C3: every loop ends and the file is written: each iteration moves its
\* cursor on by at least 35, 3, 8 or 25, every step lowers a natural-number
\* variant of the run, and a step is possible until the file is written.
C3_Terminates ==
  /\ [][CursorMoves /\ Rank' < Rank /\ Rank' >= 0]_vars
  /\ [](pc # "done" => ENABLED Next)

C3_Witness ==
  /\ pc = "done"
  /\ written

\* C5: the scale of the running iteration has 7 pitches, strictly
\* increasing, the first the root and each the root plus the mode's offset;
\* the dorian scale on 60 is 60 62 63 65 67 69 70; and get_scale gives such
\* a scale for every root and every mode (a formula of no state, evaluated
\* once the file is written).
C5_ScaleCorrect ==
  /\ pc \in {"gesture", "gap"} =>
       /\ Len(scale) = 7
       /\ scale[1] = root
       /\ \A i \in 1..6 : scale[i] < scale[i + 1]
       /\ \A i \in 1..7 : scale[i] = root + modes[current_mode][i]
       /\ (root = 60 /\ current_mode = "dorian") => scale = <<60, 62, 63, 65, 67, 69, 70>>
  /\ written =>
       /\ get_scale(60, "dorian") = <<60, 62, 63, 65, 67, 69, 70>>
       /\ \A r \in 0..127, m \in mode_names :
            LET s == get_scale(r, m)
            IN  /\ Len(s) = 7
                /\ s[1] = r
                /\ \A i \in 1..6 : s[i] < s[i + 1]
                /\ \A i \in 1..7 : s[i] - r = modes[m][i]

C5_Witness ==
  /\ pc = "gesture"
  /\ root = 60
  /\ current_mode = "dorian"
  /\ scale = <<60, 62, 63, 65, 67, 69, 70>>

\* C6: no subscript fails; a single note is a pitch of the scale of its
\* iteration; and a step-wise note played when the last pitch is not in
\* that scale is scale[clamp(3 + step, 0, 6)] with step in {-2,-1,1,2}.
C6_MelodyFallback ==
  [][/\ pc' # "error"
     /\ (pc = "gesture" /\ gesture' \in {"step", "fallback", "free"}) =>
          /\ Len(emitted') = 1
          /\ Contains(scale, emitted'[1].pitch)
     /\ (pc = "gesture" /\ gesture' \in {"step", "fallback"} /\ ~Contains(scale, last_note)) =>
          /\ step' \in {-2, -1, 1, 2}
          /\ emitted'[1].pitch = scale[Max(0, Min(6, 3 + step')) + 1]]_vars

\* a step-wise note two steps up from the middle of a scale that has moved
\* away from the last pitch
C6_Witness ==
  /\ pc = "gap"
  /\ gesture = "fallback"
  /\ step = 2
  /\ emitted[1].pitch = scale[6]
  /\ last_note = scale[6]

\* C7: each swell has a root in {48,53,55,43}, its four chord tones root,
\* root+7, root+12, root+16 at t + 0.5 * index with duration 12 and velocity
\* 15 + 3 * index, and at most one rising note root+14 at t + 6 with
\* duration 5 and velocity 35; all five times are below duration - 15, and
\* the layer adds 20 to 25 notes in all.
C7_SwellLayer ==
  /\ \A k \in 1..Len(swell_times) : swell_times[k] < duration - 150
  /\ (pc = "swell" /\ swell_k > 1) =>
       LET t == swell_times[swell_k - 1]
           tones == <<0, 7, 12, 16>>
       IN  /\ root \in {48, 53, 55, 43}
           /\ Len(emitted) \in {4, 5}
           /\ \A j \in 1..4 :
                /\ emitted[j].pitch = root + tones[j]
                /\ emitted[j].start = t + 5 * (j - 1)
                /\ emitted[j].dur = 120
                /\ emitted[j].vel = 15 + 3 * (j - 1)
           /\ Len(emitted) = 5 =>
                /\ emitted[5].pitch = root + 14
                /\ emitted[5].start = t + 60
                /\ emitted[5].dur = 50
                /\ emitted[5].vel = 35
           /\ swell_notes >= 4 * (swell_k - 1)
           /\ swell_notes <= 5 * (swell_k - 1)
  /\ pc \in {"bass", "save", "done"} => swell_notes \in 20..25

\* the layer has run, with a rising note in two of its five swells
C7_Witness ==
  /\ pc = "swell"
  /\ swell_k = Len(swell_times) + 1
  /\ swell_notes = 22
  /\ Len(emitted) = 5

\* C8: the drone's root note keeps its whole hold as its duration, so that
\* it ends where the cursor then stands, also past the end of the piece.
C8_Overrun ==
  (pc = "drone" /\ emitted # <<>>) =>
    /\ emitted[1].dur \in 350..450
    /\ emitted[1].start + emitted[1].dur = time
    /\ time >= duration => emitted[1].start + emitted[1].dur >= duration

\* a hold that starts at 295 or later and ends after 300
C8_Witness ==
  /\ pc = "drone"
  /\ emitted # <<>>
  /\ emitted[1].start >= duration - 50
  /\ emitted[1].start + emitted[1].dur > duration

\* C9 as stated: after every gesture last_note is the pitch of the last note
\* the gesture added.
C9_LastIsFinalNote ==
  pc = "gap" => last_note = emitted[Len(emitted)].pitch

\* C9 as amended: after a single note, a descending fragment or an ascending
\* motif last_note is the pitch of the last note added; after an interval
\* pair it is the pitch of the pair's first note.
C9_LastNote ==
  pc = "gap" =>
    IF gesture = "pair"
    THEN last_note = emitted[1].pitch
    ELSE last_note = emitted[Len(emitted)].pitch

C9_Witness ==
  /\ pc = "gap"
  /\ gesture = "pair"
  /\ Len(emitted) = 2
  /\ last_note = emitted[1].pitch
  /\ last_note # emitted[2].pitch

\* the pitch i scale steps above the root, the pattern repeating every octave
Degree(i) == root + 12 * (i \div 7) + modes[current_mode][(i % 7) + 1]

\* C10: the interval pair plays a pitch of the scale at the cursor for 4 and,
\* 0.3 later for 3.5 and 8 quieter, the pitch 2, 4, 5 or 7 scale steps above
\* it, which is a pitch of the scale's pattern.
C10_IntervalPair ==
  (pc = "gap" /\ gesture = "pair") =>
    /\ Len(emitted) = 2
    /\ Contains(scale, emitted[1].pitch)
    /\ emitted[1].start = time
    /\ emitted[1].dur = 40
    /\ emitted[2].start = time + 3
    /\ emitted[2].dur = 35
    /\ emitted[2].vel = emitted[1].vel - 8
    /\ step \in {2, 4, 5, 7}
    /\ emitted[2].pitch = Degree(IndexOf(scale, emitted[1].pitch) + step)
    /\ \E i \in 0..13 : emitted[2].pitch = Degree(i)

====
